---- MODULE Spec2Model ----
(***************************************************************************)
(* A state-machine model of the aicgen-site front end: the Terminal        *)
(* animation (timer driven), the Installation component (platform          *)
(* detection, tab selection, clipboard copy), the Features grid, the       *)
(* statistics section of App and the SITE_DATA configuration object.       *)
(*                                                                         *)
(* The browser's timers are one table `timers` and one clock `now` (ms).   *)
(* A callback runs once its timer is due; the clock does not pass a due    *)
(* timer, and due timers run in order of due time, then of registration.   *)
(*                                                                         *)
(* The glyphs U+2714 (check mark) and U+203A (angle quote) of the step     *)
(* texts are written by their code points.                                 *)
(***************************************************************************)
EXTENDS Integers, Sequences, FiniteSets, TLC

VARIABLES
    lines,       \* Terminal: useState<string[]>
    timeouts,    \* Terminal: the handles pushed by runAnimation
    loop,        \* Terminal: the handle of setInterval, 0 before the effect
    phase,       \* "initial", "rendered" (App rendered), then for the Terminal
                 \* "mounted" (its effect ran) and "unmounted"
    timers,      \* browser: the active timers
    nextHandle,  \* browser: the next timer handle
    now,         \* browser: the clock, in ms
    cards,       \* Features: the rendered cards
    statistics,  \* App: the rendered statistics section
    activeTab,   \* Installation: useState<InstallPlatform>
    copied,      \* Installation: useState(false)
    detected,    \* Installation: the auto-detect effect has run
    copyCalls,   \* Installation: the invocations of handleCopy so far
    errors,      \* browser: uncaught errors and unhandled rejections
    userAgent,   \* browser: navigator.userAgent, a sequence of characters
    clipboard,   \* browser: the text on the clipboard
    isOpen,      \* Navbar: useState(false)
    toggles,     \* Navbar: the clicks on the menu button since the menu was
                 \* last closed by a link
    location,    \* browser: the fragment of the page's address
    scroll,      \* browser: what the window is scrolled to, 0 for the top of
                 \* the page, else the position in AppSections of a section
    opened       \* browser: the windows opened by links with target="_blank"

vars == <<lines, timeouts, loop, phase, timers, nextHandle, now, cards,
          statistics, activeTab, copied, detected, copyCalls, errors,
          userAgent, clipboard, isOpen, toggles, location, scroll, opened>>

terminalVars == <<lines, timeouts, loop, phase>>
pageVars == <<cards, statistics>>
navVars == <<isOpen, toggles, location, scroll, opened>>
installVars == <<activeTab, copied, detected, copyCalls, errors, userAgent,
                 clipboard>>

----------------------------------------------------------------------------
(* Bounds of the model *)

\* periods of the restart interval that the clock covers
MaxIter == 2
\* the longest step of the clock, in ms
Quantum == 250
\* invocations of handleCopy that are followed
MaxCopies == 2
\* clicks on the menu button in a row that are followed
MaxToggles == 3
\* windows opened by the GitHub links that are followed
MaxOpened == 3

----------------------------------------------------------------------------
(* SITE_DATA, Features and the statistics section of App *)

SITE_DATA ==
    [version |-> "1.0",
     stats |-> [guidelines |-> 91, categories |-> 12, languages |-> 9,
                assistants |-> 5],
     features |->
       << [key |-> "multiAssistant",
           title |-> "Multi-Assistant Support",
           description |-> "Supports Claude Code, GitHub Copilot, Gemini, Antigravity, and Codex out of the box."],
          [key |-> "guidelines",
           title |-> "91 Guidelines",
           description |-> "Comprehensive coverage across 12 categories including Security, API Design, and Performance."],
          [key |-> "interactiveCLI",
           title |-> "Interactive CLI Wizard",
           description |-> "Professional setup wizard with smart defaults, back navigation, and auto-detection."],
          [key |-> "hooksSubAgents",
           title |-> "Hooks & Sub-Agents",
           description |-> "Auto-generates verification agents and hooks specifically for Claude Code workflows."],
          [key |-> "architectureAware",
           title |-> "Architecture Aware",
           description |-> "Tailors guidelines for Microservices, Hexagonal, Modular Monoliths, and Event-Driven systems."],
          [key |-> "zeroDependencies",
           title |-> "Zero Dependencies",
           description |-> "Self-contained binary with all guideline data embedded. Works completely offline."] >>]

features ==
    << [title |-> "Multi-Assistant Support",
        description |-> "Supports Claude Code, GitHub Copilot, Gemini, Antigravity, and Codex out of the box.",
        icon |-> "Cpu"],
       [title |-> "75+ Guidelines",
        description |-> "Comprehensive coverage across 12 categories including Security, API Design, and Performance.",
        icon |-> "Shield"],
       [title |-> "Interactive CLI Wizard",
        description |-> "Professional setup wizard with smart defaults, back navigation, and auto-detection.",
        icon |-> "Zap"],
       [title |-> "Hooks & Sub-Agents",
        description |-> "Auto-generates verification agents and hooks specifically for Claude Code workflows.",
        icon |-> "Code"],
       [title |-> "Architecture Aware",
        description |-> "Tailors guidelines for Microservices, Hexagonal, Modular Monoliths, and Event-Driven systems.",
        icon |-> "Layers"],
       [title |-> "Zero Dependencies",
        description |-> "Self-contained binary with all guideline data embedded. Works completely offline.",
        icon |-> "Box"] >>

\* Features as it would be with the last element left out
FeaturesRenderShort ==
    [i \in 1..(Len(features) - 1) |->
        [key |-> i - 1,
         icon |-> features[i].icon,
         h3 |-> features[i].title,
         p |-> features[i].description]]

\* features.map((feature, index) => <div key={index}> icon, h3 title,
\* p description </div>): the cards of the grid, in document order
FeaturesRender ==
    [i \in 1..Len(features) |->
        [key |-> i - 1,
         icon |-> features[i].icon,
         h3 |-> features[i].title,
         p |-> features[i].description]]

\* the four blocks of the statistics section: the number as text, the label
AppStatistics ==
    << [value |-> "91", label |-> "Guidelines"],
       [value |-> "12", label |-> "Categories"],
       [value |-> "9", label |-> "Languages"],
       [value |-> "5", label |-> "Assistants"] >>

\* the first render of App: Features and the statistics section
AppRender ==
    /\ phase = "initial"
    /\ cards' = FeaturesRender
    /\ statistics' = AppStatistics
    /\ phase' = "rendered"
    /\ UNCHANGED <<lines, timeouts, loop, timers, nextHandle, now, installVars,
                   navVars>>

----------------------------------------------------------------------------
(* Terminal *)

steps ==
    << [text |-> "> navigate to project...", delay |-> 500, color |-> ""],
       [text |-> "> aicgen init", delay |-> 1500, color |-> ""],
       [text |-> "U+2714  Analyzing project structure...", delay |-> 2500,
        color |-> "text-blue-400"],
       [text |-> "? Select AI Assistant U+203A Claude Code", delay |-> 3500,
        color |-> "text-primary"],
       [text |-> "? Choose Architecture U+203A Modular Monolith", delay |-> 4500,
        color |-> "text-primary"],
       [text |-> "U+2714  Configuration generated successfully!", delay |-> 5500,
        color |-> "text-success"],
       [text |-> "  + .claude/settings.json", delay |-> 6000,
        color |-> "text-textGray"],
       [text |-> "  + .claude/guidelines/architecture.md", delay |-> 6200,
        color |-> "text-textGray"],
       [text |-> "  + .claude/agents/checker.md", delay |-> 6400,
        color |-> "text-textGray"],
       [text |-> "> Ready to code.", delay |-> 7000, color |-> "text-white"] >>

\* the period of setInterval(runAnimation, 9000)
IntervalMs == 9000

Min(a, b) == IF a <= b THEN a ELSE b

\* the timers whose callback is to run now
Due == {t \in timers : t.due <= now}

\* the due timer the event loop runs next: earliest due time, then earliest
\* registration
IsNext(t) ==
    /\ t \in Due
    /\ \A u \in Due : t.due < u.due \/ (t.due = u.due /\ t.id <= u.id)

\* setTimeout(cb, delay) / setInterval(cb, delay): the timer registered with
\* handle id
NewTimer(id, kind, arg, delay) ==
    [id |-> id, kind |-> kind, arg |-> arg, due |-> now + delay]

\* runAnimation as it would be with the steps one second apart instead of at
\* their delays
ScheduledStepsSpaced(first) ==
    {NewTimer(first + i - 1, "step", i, i * 1000) : i \in 1..Len(steps)}

\* steps.forEach(step => timeouts.push(setTimeout(..., step.delay))): the
\* timers of one run, with handles first, first + 1, ...
ScheduledSteps(first) ==
    {NewTimer(first + i - 1, "step", i, steps[i].delay) : i \in 1..Len(steps)}

\* the handles of one run, in the order they are pushed
PushedHandles(first) == [i \in 1..Len(steps) |-> first + i - 1]

\* the effect as it would be without the first call of runAnimation
TerminalEffectIntervalOnly ==
    /\ phase = "rendered"
    /\ loop' = nextHandle
    /\ timers' = timers \cup {NewTimer(nextHandle, "loop", 0, IntervalMs)}
    /\ nextHandle' = nextHandle + 1
    /\ phase' = "mounted"
    /\ UNCHANGED <<lines, timeouts, now, pageVars, navVars, installVars>>

\* the effect as it would be with a period of 900 ms: setInterval(runAnimation, 900)
TerminalEffectShortPeriod ==
    /\ phase = "rendered"
    /\ lines' = <<>>
    /\ timeouts' = timeouts \o PushedHandles(nextHandle)
    /\ loop' = nextHandle + Len(steps)
    /\ timers' = timers \cup ScheduledSteps(nextHandle)
                   \cup {NewTimer(nextHandle + Len(steps), "loop", 0, 900)}
    /\ nextHandle' = nextHandle + Len(steps) + 1
    /\ phase' = "mounted"
    /\ UNCHANGED <<now, pageVars, navVars, installVars>>

\* the effect of Terminal: runAnimation(), then setInterval(runAnimation, 9000)
TerminalEffect ==
    /\ phase = "rendered"
    /\ lines' = <<>>
    /\ timeouts' = timeouts \o PushedHandles(nextHandle)
    /\ loop' = nextHandle + Len(steps)
    /\ timers' = timers \cup ScheduledSteps(nextHandle)
                   \cup {NewTimer(nextHandle + Len(steps), "loop", 0, IntervalMs)}
    /\ nextHandle' = nextHandle + Len(steps) + 1
    /\ phase' = "mounted"
    /\ UNCHANGED <<now, pageVars, navVars, installVars>>

\* the callback as it would be with the text put in front: [step.text, ...prev]
StepTimeoutPrepend ==
    \E t \in timers :
        /\ IsNext(t)
        /\ t.kind = "step"
        /\ lines' = <<steps[t.arg].text>> \o lines
        /\ timers' = timers \ {t}
        /\ UNCHANGED <<timeouts, loop, phase, nextHandle, now, pageVars, navVars,
                       installVars>>

\* the callback as it would be if scheduled with setInterval: it is armed again
StepTimeoutRepeats ==
    \E t \in timers :
        /\ IsNext(t)
        /\ t.kind = "step"
        /\ lines' = Append(lines, steps[t.arg].text)
        /\ timers' = (timers \ {t})
                       \cup {[t EXCEPT !.due = t.due + steps[t.arg].delay]}
        /\ UNCHANGED <<timeouts, loop, phase, nextHandle, now, pageVars, navVars,
                       installVars>>

\* the callback of a step's timeout: setLines(prev => [...prev, step.text])
StepTimeout ==
    \E t \in timers :
        /\ IsNext(t)
        /\ t.kind = "step"
        /\ lines' = Append(lines, steps[t.arg].text)
        /\ timers' = timers \ {t}
        /\ UNCHANGED <<timeouts, loop, phase, nextHandle, now, pageVars, navVars,
                       installVars>>

\* runAnimation as it would be without setLines([])
LoopIntervalKeepsLines ==
    \E t \in timers :
        /\ IsNext(t)
        /\ t.kind = "loop"
        /\ timeouts' = timeouts \o PushedHandles(nextHandle)
        /\ timers' = (timers \ {t}) \cup ScheduledSteps(nextHandle)
                       \cup {[t EXCEPT !.due = t.due + IntervalMs]}
        /\ nextHandle' = nextHandle + Len(steps)
        /\ UNCHANGED <<lines, loop, phase, now, pageVars, navVars, installVars>>

\* the callback of the interval: runAnimation; the interval is armed again
LoopInterval ==
    \E t \in timers :
        /\ IsNext(t)
        /\ t.kind = "loop"
        /\ lines' = <<>>
        /\ timeouts' = timeouts \o PushedHandles(nextHandle)
        /\ timers' = (timers \ {t}) \cup ScheduledSteps(nextHandle)
                       \cup {[t EXCEPT !.due = t.due + IntervalMs]}
        /\ nextHandle' = nextHandle + Len(steps)
        /\ UNCHANGED <<loop, phase, now, pageVars, navVars, installVars>>

\* the handles a cleanup clears
Cleared == {loop} \cup {timeouts[i] : i \in 1..Len(timeouts)}

\* the cleanup as it would be with clearInterval(loop) alone
TerminalCleanupIntervalOnly ==
    /\ phase = "mounted"
    /\ timers' = {t \in timers : t.id # loop}
    /\ phase' = "unmounted"
    /\ UNCHANGED <<lines, timeouts, loop, nextHandle, now, pageVars, navVars,
                   installVars>>

\* the cleanup of the effect: clearInterval(loop); timeouts.forEach(clearTimeout)
TerminalCleanup ==
    /\ phase = "mounted"
    /\ timers' = {t \in timers : t.id \notin Cleared}
    /\ phase' = "unmounted"
    /\ UNCHANGED <<lines, timeouts, loop, nextHandle, now, pageVars, navVars,
                   installVars>>

\* the render as it would be with the colour looked up one step further on
TerminalRenderOffByOne ==
    [idx \in 1..Len(lines) |->
        [key |-> idx - 1,
         className |-> (IF idx + 1 <= Len(steps) /\ steps[idx + 1].color # ""
                        THEN steps[idx + 1].color
                        ELSE "text-gray-300") \o " mb-1",
         text |-> lines[idx]]]

\* lines.map((line, idx) => <div key={idx} className={`${steps[idx]?.color ||
\* 'text-gray-300'} mb-1`}>{line}</div>): the rows of the terminal window,
\* in document order; steps[idx] of the code is steps[idx] here, idx from 1
TerminalRender ==
    [idx \in 1..Len(lines) |->
        [key |-> idx - 1,
         className |-> (IF idx <= Len(steps) /\ steps[idx].color # ""
                        THEN steps[idx].color
                        ELSE "text-gray-300") \o " mb-1",
         text |-> lines[idx]]]

----------------------------------------------------------------------------
(* Installation *)

InstallPlatform == {"npm", "windows", "mac", "linux"}

tabs ==
    << [id |-> "npm", label |-> "npm (Rec.)"],
       [id |-> "windows", label |-> "Windows"],
       [id |-> "mac", label |-> "macOS"],
       [id |-> "linux", label |-> "Linux"] >>

\* the delay of setTimeout(() => setCopied(false), 2000)
CopiedResetMs == 2000

\* the tokens user agent strings are made of here: "Win" of "Windows NT",
\* "Mac" of "Macintosh" and "Mac OS X", "Linux", "X11" and "Darwin"
Windows == <<"W", "i", "n">>
Mac == <<"M", "a", "c">>
Linux == <<"L", "i", "n", "u", "x">>
X11 == <<"X", "1", "1">>
Darwin == <<"D", "a", "r", "w", "i", "n">>

\* the values of navigator.userAgent that are followed: no token, each
\* token alone, and two tokens in either order
UserAgents ==
    {<<>>, X11, Windows, Mac, Linux, Darwin, X11 \o Linux,
     Windows \o Mac, Mac \o Windows, Mac \o Linux, Linux \o Mac,
     Windows \o Linux, Linux \o Windows}

UpperLetters ==
    <<"A", "B", "C", "D", "E", "F", "G", "H", "I", "J", "K", "L", "M",
      "N", "O", "P", "Q", "R", "S", "T", "U", "V", "W", "X", "Y", "Z">>
LowerLetters ==
    <<"a", "b", "c", "d", "e", "f", "g", "h", "i", "j", "k", "l", "m",
      "n", "o", "p", "q", "r", "s", "t", "u", "v", "w", "x", "y", "z">>

\* String.prototype.toLowerCase, on a sequence of characters
ToLowerCase(str) ==
    [p \in 1..Len(str) |->
        IF \E k \in 1..Len(UpperLetters) : UpperLetters[k] = str[p]
        THEN LowerLetters[CHOOSE k \in 1..Len(UpperLetters) :
                              UpperLetters[k] = str[p]]
        ELSE str[p]]

\* String.prototype.includes
Includes(str, sub) ==
    \E p \in 1..(Len(str) - Len(sub) + 1) :
        SubSeq(str, p, p + Len(sub) - 1) = sub

\* the detection as it would be with the test for "mac" first
DetectPlatformMacFirst(agent) ==
    LET ua == ToLowerCase(agent)
    IN  IF Includes(ua, <<"m", "a", "c">>) THEN "mac"
        ELSE IF Includes(ua, <<"w", "i", "n">>) THEN "windows"
        ELSE IF Includes(ua, <<"l", "i", "n", "u", "x">>) THEN "linux"
        ELSE "npm"

\* the tab the auto-detect effect selects for a user agent
DetectPlatform(agent) ==
    LET ua == ToLowerCase(agent)
    IN  IF Includes(ua, <<"w", "i", "n">>) THEN "windows"
        ELSE IF Includes(ua, <<"m", "a", "c">>) THEN "mac"
        ELSE IF Includes(ua, <<"l", "i", "n", "u", "x">>) THEN "linux"
        ELSE "npm"

\* the effect as it would be without its dependency array: it runs after
\* every render
InstallationEffectEveryRender ==
    /\ phase = "rendered"
    /\ activeTab' = DetectPlatform(userAgent)
    /\ detected' = TRUE
    /\ UNCHANGED <<terminalVars, timers, nextHandle, now, pageVars, navVars, copied,
                   copyCalls, errors, userAgent, clipboard>>

\* the effect of Installation: auto-detect the platform
InstallationEffect ==
    /\ phase = "rendered"
    /\ ~detected
    /\ activeTab' = DetectPlatform(userAgent)
    /\ detected' = TRUE
    /\ UNCHANGED <<terminalVars, timers, nextHandle, now, pageVars, navVars, copied,
                   copyCalls, errors, userAgent, clipboard>>

\* the click as it would be with the tab's label taken for its id
TabClickLabel(tab) ==
    /\ detected
    /\ activeTab' = tab.label
    /\ UNCHANGED <<terminalVars, timers, nextHandle, now, pageVars, navVars, copied,
                   detected, copyCalls, errors, userAgent, clipboard>>

\* onClick of a tab button: setActiveTab(tab.id)
TabClick(tab) ==
    /\ detected
    /\ activeTab' = tab.id
    /\ UNCHANGED <<terminalVars, timers, nextHandle, now, pageVars, navVars, copied,
                   detected, copyCalls, errors, userAgent, clipboard>>

\* what navigator.clipboard.writeText can do: navigator.clipboard is
\* undefined (no secure context), or the promise resolves, or it rejects
ClipboardOutcomes == {"unavailable", "resolved", "rejected"}

\* the commands of the two copy buttons of the npm tab
CopyCommands == <<"npm install -g @aicgen/aicgen", "npx @aicgen/aicgen init">>

\* handleCopy as it would be without the setTimeout that resets copied
HandleCopyNoReset(text, outcome) ==
    /\ detected
    /\ activeTab = "npm"
    /\ copyCalls < MaxCopies
    /\ copyCalls' = copyCalls + 1
    /\ IF outcome = "unavailable"
       THEN /\ errors' = Append(errors, "TypeError")
            /\ UNCHANGED <<copied, clipboard>>
       ELSE /\ clipboard' = IF outcome = "resolved" THEN text ELSE clipboard
            /\ copied' = TRUE
            /\ errors' = IF outcome = "rejected"
                         THEN Append(errors, "unhandledrejection")
                         ELSE errors
    /\ UNCHANGED <<terminalVars, timers, nextHandle, now, pageVars, navVars, activeTab,
                   detected, userAgent>>

\* handleCopy(text), called by a copy button of the npm tab.  With
\* navigator.clipboard undefined line 19 throws a TypeError and the handler
\* ends there; a rejected promise is handled nowhere and leaves the
\* clipboard as it was.
HandleCopy(text, outcome) ==
    /\ detected
    /\ activeTab = "npm"
    /\ copyCalls < MaxCopies
    /\ copyCalls' = copyCalls + 1
    /\ IF outcome = "unavailable"
       THEN /\ errors' = Append(errors, "TypeError")
            /\ UNCHANGED <<copied, timers, nextHandle, clipboard>>
       ELSE /\ clipboard' = IF outcome = "resolved" THEN text ELSE clipboard
            /\ copied' = TRUE
            /\ timers' = timers \cup
                  {NewTimer(nextHandle, "copied", 0, CopiedResetMs)}
            /\ nextHandle' = nextHandle + 1
            /\ errors' = IF outcome = "rejected"
                         THEN Append(errors, "unhandledrejection")
                         ELSE errors
    /\ UNCHANGED <<terminalVars, now, pageVars, navVars, activeTab, detected,
                   userAgent>>

\* the callback of handleCopy's timeout: setCopied(false)
CopiedReset ==
    \E t \in timers :
        /\ IsNext(t)
        /\ t.kind = "copied"
        /\ copied' = FALSE
        /\ timers' = timers \ {t}
        /\ UNCHANGED <<terminalVars, nextHandle, now, pageVars, navVars, activeTab,
                       detected, copyCalls, errors, userAgent, clipboard>>

\* the tab buttons: a button has the highlight classes when
\* activeTab === tab.id
TabButtons ==
    [i \in 1..Len(tabs) |->
        [id |-> tabs[i].id,
         label |-> tabs[i].label,
         highlighted |-> (activeTab = tabs[i].id)]]

\* renderContent as it would be without the case 'linux'
RenderContentNoLinux ==
    CASE activeTab = "npm" ->
           [platform |-> "npm",
            buttons |->
              << [command |-> CopyCommands[1],
                  icon |-> IF copied THEN "Check" ELSE "Copy"],
                 [command |-> CopyCommands[2], icon |-> "Copy"] >>]
      [] activeTab = "windows" -> [platform |-> "windows", buttons |-> <<>>]
      [] activeTab = "mac" -> [platform |-> "mac", buttons |-> <<>>]
      [] OTHER -> [platform |-> "undefined", buttons |-> <<>>]

\* renderContent: the block of the active tab, with the copy buttons of the
\* npm block and the icon each shows; the switch has no default, so that any
\* other value renders nothing
RenderContent ==
    CASE activeTab = "npm" ->
           [platform |-> "npm",
            buttons |->
              << [command |-> CopyCommands[1],
                  icon |-> IF copied THEN "Check" ELSE "Copy"],
                 [command |-> CopyCommands[2], icon |-> "Copy"] >>]
      [] activeTab = "windows" -> [platform |-> "windows", buttons |-> <<>>]
      [] activeTab = "mac" -> [platform |-> "mac", buttons |-> <<>>]
      [] activeTab = "linux" -> [platform |-> "linux", buttons |-> <<>>]
      [] OTHER -> [platform |-> "undefined", buttons |-> <<>>]

----------------------------------------------------------------------------
(* Navbar *)

navLinks ==
    << [name |-> "Features", href |-> "#features"],
       [name |-> "How It Works", href |-> "#how-it-works"],
       [name |-> "Installation", href |-> "#installation"] >>

\* the menu button and the mobile menu panel as rendered: the X icon and the
\* panel with the three links and the GitHub link when isOpen, else the Menu
\* icon and no panel
NavbarRender ==
    [icon |-> IF isOpen THEN "X" ELSE "Menu",
     panel |-> IF isOpen
               THEN navLinks \o
                    << [name |-> "GitHub Repo",
                        href |-> "https://github.com/lpsandaruwan/aicgen"] >>
               ELSE <<>>]

\* App as it would be with the id of the Installation section left out
AppSectionsNoInstallationId ==
    << [component |-> "Hero", id |-> ""],
       [component |-> "Features", id |-> "features"],
       [component |-> "HowItWorks", id |-> "how-it-works"],
       [component |-> "OutputPreview", id |-> ""],
       [component |-> "Installation", id |-> ""],
       [component |-> "Statistics", id |-> ""] >>

\* the children of <main> in App, in document order, each with the id of its
\* <section> ("" where the element has no id attribute)
AppSections ==
    << [component |-> "Hero", id |-> ""],
       [component |-> "Features", id |-> "features"],
       [component |-> "HowItWorks", id |-> "how-it-works"],
       [component |-> "OutputPreview", id |-> ""],
       [component |-> "Installation", id |-> "installation"],
       [component |-> "Statistics", id |-> ""] >>

\* the 'Get Started' link of Hero
HeroGetStarted == [name |-> "Get Started", href |-> "#installation"]

\* the fragment of an href of the form #fragment: the text after the "#"
Fragment(href) == SubSeq(href, 2, Len(href))

\* the sections whose id is the fragment of href
Targets(href) ==
    {i \in 1..Len(AppSections) :
        AppSections[i].id # "" /\ AppSections[i].id = Fragment(href)}

\* the browser follows a link to a fragment of the page: the address takes
\* the fragment, and the window scrolls to the first element in document order
\* whose id is the fragment, if there is one
FollowFragment(href) ==
    /\ location' = href
    /\ scroll' = IF Targets(href) = {}
                 THEN scroll
                 ELSE CHOOSE i \in Targets(href) :
                          \A j \in Targets(href) : i <= j

\* the click as it would be with setIsOpen(true)
MenuButtonClickOpens ==
    /\ phase # "initial"
    /\ toggles < MaxToggles
    /\ isOpen' = TRUE
    /\ toggles' = toggles + 1
    /\ UNCHANGED <<terminalVars, timers, nextHandle, now, pageVars,
                   installVars, location, scroll, opened>>

\* onClick of the menu button: setIsOpen(!isOpen)
MenuButtonClick ==
    /\ phase # "initial"
    /\ toggles < MaxToggles
    /\ isOpen' = ~isOpen
    /\ toggles' = toggles + 1
    /\ UNCHANGED <<terminalVars, timers, nextHandle, now, pageVars,
                   installVars, location, scroll, opened>>

\* the click as it would be without the onClick of the link
MobileLinkClickStaysOpen(link) ==
    /\ phase # "initial"
    /\ isOpen
    /\ FollowFragment(link.href)
    /\ UNCHANGED <<terminalVars, timers, nextHandle, now, pageVars,
                   installVars, isOpen, toggles, opened>>

\* a click on a section link of the mobile menu, which is rendered only when
\* isOpen: setIsOpen(false), and the browser follows the href
MobileLinkClick(link) ==
    /\ phase # "initial"
    /\ isOpen
    /\ isOpen' = FALSE
    /\ toggles' = 0
    /\ FollowFragment(link.href)
    /\ UNCHANGED <<terminalVars, timers, nextHandle, now, pageVars,
                   installVars, opened>>

\* onClick of the logo: window.scrollTo(0,0)
LogoClick ==
    /\ phase # "initial"
    /\ scroll' = 0
    /\ UNCHANGED <<terminalVars, timers, nextHandle, now, pageVars,
                   installVars, isOpen, toggles, location, opened>>

\* a click on a section link of the desktop row, which has no onClick: the
\* browser follows the href
DesktopLinkClick(link) ==
    /\ phase # "initial"
    /\ FollowFragment(link.href)
    /\ UNCHANGED <<terminalVars, timers, nextHandle, now, pageVars,
                   installVars, isOpen, toggles, opened>>

\* a click on the GitHub link of the desktop row: target="_blank", the
\* repository opens in a new window
DesktopGitHubClick ==
    /\ phase # "initial"
    /\ opened < MaxOpened
    /\ opened' = opened + 1
    /\ UNCHANGED <<terminalVars, timers, nextHandle, now, pageVars,
                   installVars, isOpen, toggles, location, scroll>>

\* the click on the GitHub link of the menu as it would be with the onClick
\* of the section links
MobileGitHubClickCloses ==
    /\ phase # "initial"
    /\ isOpen
    /\ opened < MaxOpened
    /\ opened' = opened + 1
    /\ isOpen' = FALSE
    /\ toggles' = 0
    /\ UNCHANGED <<terminalVars, timers, nextHandle, now, pageVars,
                   installVars, location, scroll>>

\* a click on the GitHub link of the mobile menu, which is rendered only when
\* isOpen and has no onClick: the repository opens in a new window
MobileGitHubClick ==
    /\ phase # "initial"
    /\ isOpen
    /\ opened < MaxOpened
    /\ opened' = opened + 1
    /\ UNCHANGED <<terminalVars, timers, nextHandle, now, pageVars,
                   installVars, isOpen, toggles, location, scroll>>

\* a click on the 'Get Started' link of Hero: the browser follows the href
HeroGetStartedClick ==
    /\ phase # "initial"
    /\ FollowFragment(HeroGetStarted.href)
    /\ UNCHANGED <<terminalVars, timers, nextHandle, now, pageVars,
                   installVars, isOpen, toggles, opened>>

----------------------------------------------------------------------------
(* The clock *)

\* the time the model follows
Horizon == MaxIter * IntervalMs

\* the clock moves on, by at most Quantum and not past a timer's due time;
\* it is followed while a timer is pending and after the Terminal's cleanup
Advance ==
    /\ timers # {} \/ phase = "unmounted"
    /\ Due = {}
    /\ now < Horizon
    /\ \E target \in {Min(now + Quantum, Horizon)} \cup {t.due : t \in timers} :
        /\ target > now
        /\ target <= now + Quantum
        /\ \A t \in timers : target <= t.due
        /\ now' = target
    /\ UNCHANGED <<terminalVars, timers, nextHandle, pageVars, navVars, installVars>>

----------------------------------------------------------------------------

InitInstall ==
    /\ lines = <<>>
    /\ timeouts = <<>>
    /\ loop = 0
    /\ phase = "initial"
    /\ timers = {}
    /\ nextHandle = 1
    /\ now = 0
    /\ cards = <<>>
    /\ statistics = <<>>
    /\ activeTab = "npm"
    /\ copied = FALSE
    /\ detected = FALSE
    /\ copyCalls = 0
    /\ errors = <<>>
    /\ userAgent \in UserAgents
    /\ clipboard = ""
    /\ isOpen = FALSE
    /\ toggles = 0
    /\ location = ""
    /\ scroll = 0
    /\ opened = 0

\* the page in a browser on Linux: the Terminal is followed
Init ==
    /\ InitInstall
    /\ userAgent = X11 \o Linux

Next ==
    \/ AppRender
    \/ TerminalEffect
    \/ StepTimeout
    \/ LoopInterval
    \/ TerminalCleanup
    \/ MenuButtonClick
    \/ \E i \in 1..Len(navLinks) : MobileLinkClick(navLinks[i])
    \/ Advance

Spec == Init /\ [][Next]_vars

\* the Navbar and the links into the page, with every click
NextNav ==
    \/ AppRender
    \/ MenuButtonClick
    \/ \E i \in 1..Len(navLinks) : MobileLinkClick(navLinks[i])
    \/ LogoClick
    \/ \E i \in 1..Len(navLinks) : DesktopLinkClick(navLinks[i])
    \/ DesktopGitHubClick
    \/ MobileGitHubClick
    \/ HeroGetStartedClick

SpecNav == Init /\ [][NextNav]_vars

\* the Installation component alone, for every user agent
NextInstall ==
    \/ AppRender
    \/ InstallationEffect
    \/ \E i \in 1..Len(tabs) : TabClick(tabs[i])
    \/ \E c \in 1..Len(CopyCommands), outcome \in ClipboardOutcomes :
          HandleCopy(CopyCommands[c], outcome)
    \/ CopiedReset
    \/ Advance

SpecInstall == InitInstall /\ [][NextInstall]_vars

LiveSpecInstall ==
    /\ SpecInstall
    /\ WF_vars(InstallationEffect)
    /\ WF_vars(CopiedReset)
    /\ WF_vars(Advance)

LiveSpec ==
    /\ Spec
    /\ WF_vars(TerminalEffect)
    /\ WF_vars(StepTimeout)
    /\ WF_vars(LoopInterval)
    /\ WF_vars(Advance)

----------------------------------------------------------------------------
(* Terminal: what the claims speak of *)

\* the step whose text is text
StepOf(text) == CHOOSE i \in 1..Len(steps) : steps[i].text = text

\* the positions of lines that hold text
Positions(text) == {p \in 1..Len(lines) : lines[p] = text}

\* the pending timeouts of step i
Pending(i) == {t \in timers : t.kind = "step" /\ t.arg = i}

\* the timer of the interval, while the component is mounted
LoopTimer == CHOOSE t \in timers : t.id = loop

\* the time since the current run of runAnimation
Elapsed == now - (LoopTimer.due - IntervalMs)

\* the texts of the steps whose delay is at most t, in steps order
RevealedAt(t) ==
    LET shown == SelectSeq(steps, LAMBDA s : s.delay <= t)
    IN  [p \in 1..Len(shown) |-> shown[p].text]

\* the runs of runAnimation so far
Runs == Len(timeouts) \div Len(steps)

\* C1: the steps list is in ascending order of delay, and whenever the text of
\* a step b is in lines, the text of every step a with a smaller delay is in
\* lines at an earlier position: texts are appended in order of delay.
C1_RevealInDelayOrder ==
    /\ \A a, b \in 1..Len(steps) : a < b => steps[a].delay < steps[b].delay
    /\ \A a, b \in 1..Len(steps) :
        (steps[a].delay < steps[b].delay /\ Positions(steps[b].text) # {})
            => \E p \in Positions(steps[a].text) :
                   \A q \in Positions(steps[b].text) : p < q

C1_Witness ==
    /\ phase = "mounted"
    /\ Runs = 2
    /\ Len(lines) = Len(steps)

\* C2: while mounted, at elapsed time t < 9000 of the current iteration no
\* text is in lines before its delay has elapsed, and once every due callback
\* has run lines is exactly the texts of the steps with delay <= t.
C2_RevealTime ==
    (phase = "mounted" /\ Elapsed < IntervalMs) =>
        /\ Elapsed >= 0
        /\ \A p \in 1..Len(lines) : steps[StepOf(lines[p])].delay <= Elapsed
        /\ Due = {} => lines = RevealedAt(Elapsed)

C2_Witness ==
    /\ phase = "mounted"
    /\ Runs = 2
    /\ Due = {}
    /\ Elapsed = 6200
    /\ Len(lines) = 8

\* C3: once the component is unmounted no timer of the Terminal is left, the
\* interval's included, and lines never changes again.
C3_TeardownCancels ==
    /\ [](phase = "unmounted" =>
            \A t \in timers : t.kind \notin {"step", "loop"})
    /\ [][phase = "unmounted" => lines' = lines]_vars

\* unmounted in the middle of the second iteration, and the clock has passed
\* the due time of every cancelled timer
C3_Witness ==
    /\ phase = "unmounted"
    /\ Runs = 2
    /\ Len(lines) = 3
    /\ now >= 2 * IntervalMs

\* C4: runAnimation runs at mount and then every 9000 ms: each run empties
\* lines, schedules one timeout per step at its delay and happens exactly
\* when the interval is due, which is 9000 ms after the run before; and
\* while the component stays mounted every run is followed by another one
\* (within the time the clock covers).
C4_Restarts ==
    /\ [](phase = "mounted" => Runs >= 1)
    /\ [][Len(timeouts') > Len(timeouts) =>
            /\ phase' = "mounted"
            /\ lines' = <<>>
            /\ Len(timeouts') = Len(timeouts) + Len(steps)
            /\ \A i \in 1..Len(steps) :
                \E t \in timers' :
                    /\ t.kind = "step" /\ t.arg = i
                    /\ t.due = now + steps[i].delay
                    /\ t.id = timeouts'[Len(timeouts) + i]
            /\ LoopTimer'.due = now + IntervalMs
            /\ phase = "mounted" => LoopTimer.due = now]_vars
    /\ \A k \in 1..MaxIter :
        (phase = "mounted" /\ Runs = k /\ LoopTimer.due <= Horizon)
            ~> (phase = "unmounted" \/ (Runs = k + 1 /\ lines = <<>>))

C4_Witness ==
    /\ phase = "mounted"
    /\ Runs = MaxIter
    /\ lines = <<>>
    /\ now = (MaxIter - 1) * IntervalMs

\* C5: while mounted every step has exactly one timeout of the current
\* iteration, either still pending or fired, and a fired one has appended its
\* text exactly once; lines never holds a text twice.
C5_ScheduledOnce ==
    /\ phase = "mounted" =>
        \A i \in 1..Len(steps) :
            Cardinality(Pending(i)) + Cardinality(Positions(steps[i].text)) = 1
    /\ \A p, q \in 1..Len(lines) : lines[p] = lines[q] => p = q

C5_Witness ==
    /\ phase = "mounted"
    /\ Runs = 2
    /\ Len(lines) = 5
    /\ \A i \in 1..5 : Pending(i) = {}
    /\ \A i \in 6..Len(steps) : Cardinality(Pending(i)) = 1

\* C10: in every state lines is a prefix of the step texts in steps order.
C10_PrefixOfSteps ==
    /\ Len(lines) <= Len(steps)
    /\ \A p \in 1..Len(lines) : p <= Len(steps) /\ lines[p] = steps[p].text

\* a proper prefix after a reset
C10_Witness ==
    /\ Runs = 2
    /\ Len(lines) = 2

----------------------------------------------------------------------------
(* Installation, Features, SITE_DATA: what the claims speak of *)

\* C6: every invocation of handleCopy ends without an error, has set copied
\* and has scheduled the reset 2000 ms later.
C6_CopyNeverFails ==
    [][copyCalls' > copyCalls =>
        /\ errors' = errors
        /\ copied' = TRUE
        /\ \E t \in timers' \ timers :
            t.kind = "copied" /\ t.due = now + CopiedResetMs]_vars

\* C7: the tabs array holds the four ids of InstallPlatform, each once, and
\* activeTab is always one of them.
C7_TabsArePlatforms ==
    /\ Len(tabs) = 4
    /\ \A i, j \in 1..Len(tabs) : tabs[i].id = tabs[j].id => i = j
    /\ {tabs[i].id : i \in 1..Len(tabs)} = InstallPlatform
    /\ InstallPlatform = {"npm", "windows", "mac", "linux"}
    /\ \E i \in 1..Len(tabs) : activeTab = tabs[i].id

\* detection chose one tab and a click chose another
C7_Witness ==
    /\ detected
    /\ DetectPlatform(userAgent) = "mac"
    /\ activeTab = "linux"

\* C8: once rendered, the features section shows 6 cards, one per element of
\* features and in its order.
C8_SixFeatureCards ==
    phase # "initial" =>
        /\ Len(features) = 6
        /\ Len(cards) = 6
        /\ \A i \in 1..Len(cards) :
            /\ cards[i].key = i - 1
            /\ cards[i].h3 = features[i].title
            /\ cards[i].p = features[i].description
            /\ cards[i].icon = features[i].icon

C8_Witness ==
    /\ phase = "mounted"
    /\ Len(cards) = 6
    /\ cards[2].h3 = "75+ Guidelines"

\* C9: what is displayed is what SITE_DATA holds: the titles and descriptions
\* of the feature cards are those of SITE_DATA.features, and the four
\* statistics are SITE_DATA.stats.
C9_SiteDataIsDisplayed ==
    phase # "initial" =>
        /\ {<<cards[i].h3, cards[i].p>> : i \in 1..Len(cards)}
             = {<<SITE_DATA.features[i].title, SITE_DATA.features[i].description>> :
                    i \in 1..Len(SITE_DATA.features)}
        /\ Len(cards) = Len(SITE_DATA.features)
        /\ statistics =
             << [value |-> ToString(SITE_DATA.stats.guidelines), label |-> "Guidelines"],
                [value |-> ToString(SITE_DATA.stats.categories), label |-> "Categories"],
                [value |-> ToString(SITE_DATA.stats.languages), label |-> "Languages"],
                [value |-> ToString(SITE_DATA.stats.assistants), label |-> "Assistants"] >>

----------------------------------------------------------------------------
(* Terminal: completion of an iteration, the handles kept *)

\* the time at which the current run of runAnimation started
RunStart == LoopTimer.due - IntervalMs

\* C11: the largest delay is below the restart interval; whenever
\* runAnimation runs again, lines holds all ten step texts and no timeout of
\* the iteration before is pending; and every iteration whose last delay the
\* clock covers reaches the state where lines holds all ten texts, unless the
\* component unmounts.
C11_IterationCompletes ==
    /\ [](\A i \in 1..Len(steps) : steps[i].delay < IntervalMs)
    /\ [][(phase = "mounted" /\ Len(timeouts') > Len(timeouts)) =>
            /\ Len(lines) = Len(steps)
            /\ \A i \in 1..Len(steps) : Pending(i) = {}]_vars
    /\ \A k \in 1..MaxIter :
        (/\ phase = "mounted"
         /\ Runs = k
         /\ RunStart + steps[Len(steps)].delay <= Horizon)
            ~> (phase = "unmounted" \/ (Runs = k /\ Len(lines) = Len(steps)))

\* the first iteration is complete and the interval is due
C11_Witness ==
    /\ phase = "mounted"
    /\ Runs = 1
    /\ Len(lines) = Len(steps)
    /\ LoopTimer \in Due
    /\ \A i \in 1..Len(steps) : Pending(i) = {}

\* C12: the list of handles kept for the cleanup never holds more than the
\* handles of one iteration.
C12_HandlesOfOneIteration == Len(timeouts) <= Len(steps)

----------------------------------------------------------------------------
(* Installation: detection, selection, rendering, the copied indicator *)

\* the pending timeouts that reset copied
CopiedTimers == {t \in timers : t.kind = "copied"}

\* C13: the effect sets activeTab from the lower-cased user agent: windows
\* if it contains "win", else mac if it contains "mac", else linux if it
\* contains "linux", else npm; with several of them the first in that order.
C13_DetectionPrecedence ==
    [][(~detected /\ detected') =>
        LET ua == ToLowerCase(userAgent)
            win == Includes(ua, <<"w", "i", "n">>)
            mac == Includes(ua, <<"m", "a", "c">>)
            lin == Includes(ua, <<"l", "i", "n", "u", "x">>)
        IN  /\ win => activeTab' = "windows"
            /\ (~win /\ mac) => activeTab' = "mac"
            /\ (~win /\ ~mac /\ lin) => activeTab' = "linux"
            /\ (~win /\ ~mac /\ ~lin) => activeTab' = "npm"
            /\ userAgent \in {Windows, Mac \o Windows, Linux \o Windows, Darwin}
                 => activeTab' = "windows"
            /\ userAgent \in {Mac, Linux \o Mac, Mac \o Linux}
                 => activeTab' = "mac"
            /\ userAgent \in {Linux, X11 \o Linux} => activeTab' = "linux"
            /\ userAgent \in {<<>>, X11} => activeTab' = "npm"]_vars

\* detection has run, nothing else has, on an agent with "mac" before "win"
C13_Witness ==
    /\ detected
    /\ userAgent = Mac \o Windows
    /\ activeTab = "windows"
    /\ copyCalls = 0
    /\ timers = {}

\* C14: detection runs once, before any interaction; after it activeTab
\* changes only by a click on a tab, to that tab's id; a copy click and the
\* reset of copied leave activeTab alone.
C14_SelectionIsTheUsers ==
    /\ [](detected => ~ENABLED InstallationEffect)
    /\ [](~detected => (activeTab = "npm" /\ copyCalls = 0 /\ ~copied))
    /\ [][detected => detected']_vars
    /\ [][(detected /\ activeTab' # activeTab) =>
            \E i \in 1..Len(tabs) :
                activeTab' = tabs[i].id /\ TabClick(tabs[i])]_vars
    /\ [][(copyCalls' # copyCalls \/ copied' # copied) =>
            activeTab' = activeTab]_vars

\* the user went to the npm tab, copied, and went on to another tab than the
\* detected one while the reset was pending
C14_Witness ==
    /\ detected
    /\ DetectPlatform(userAgent) = "linux"
    /\ activeTab = "windows"
    /\ copyCalls = 1
    /\ copied

\* C15: exactly one tab button is highlighted, the one of activeTab, and
\* renderContent gives the block of that platform, never nothing.
C15_RenderFollowsSelection ==
    /\ Cardinality({i \in 1..Len(tabs) : TabButtons[i].highlighted}) = 1
    /\ \A i \in 1..Len(tabs) :
        TabButtons[i].highlighted => TabButtons[i].id = activeTab
    /\ RenderContent.platform = activeTab
    /\ RenderContent.platform \in InstallPlatform

C15_Witness ==
    /\ detected
    /\ DetectPlatform(userAgent) = "windows"
    /\ activeTab = "linux"
    /\ RenderContent.platform = "linux"
    /\ TabButtons[4].highlighted

\* C16: in the 2000 ms that follow an invocation of handleCopy that set
\* copied, copied stays true.
C16_CopiedForTheFullDelay ==
    \A t \in CopiedTimers : now < t.due => copied

\* C17: copied starts false; while it is true a reset is pending that is due
\* within 2000 ms; and it always becomes false again.
C17_CopiedResets ==
    /\ [](copyCalls = 0 => ~copied)
    /\ [](copied => \E t \in CopiedTimers : t.due <= now + CopiedResetMs)
    /\ copied ~> ~copied

\* copied has been reset after the last of the copies, nothing is pending
C17_Witness ==
    /\ copyCalls = MaxCopies
    /\ errors = <<>>
    /\ ~copied
    /\ CopiedTimers = {}
    /\ now >= CopiedResetMs

\* C18: a click on the copy button of the npx command leaves the icon of the
\* button of `npm install -g` as it was; and, no clipboard call having
\* failed, a button shows the check icon only while its own command is the
\* one copied last.
C18_ConfirmationOnTheClickedButton ==
    /\ [][(\E outcome \in ClipboardOutcomes :
              HandleCopy(CopyCommands[2], outcome)) =>
            RenderContent'.buttons[1].icon = RenderContent.buttons[1].icon]_vars
    /\ [](\A b \in 1..Len(RenderContent.buttons) :
            (errors = <<>> /\ RenderContent.buttons[b].icon = "Check")
                => clipboard = RenderContent.buttons[b].command)

----------------------------------------------------------------------------
(* Navbar: what the claims speak of *)

\* C19: isOpen starts false and every click on the menu button flips it, so
\* that after n clicks in a row from the closed menu it is open iff n is odd;
\* the panel is rendered, and the button shows the X icon, exactly when
\* isOpen.
C19_MenuToggles ==
    /\ [](phase = "initial" => ~isOpen)
    /\ [](isOpen <=> toggles % 2 = 1)
    /\ [](NavbarRender.panel # <<>> <=> isOpen)
    /\ [](NavbarRender.icon = "X" <=> isOpen)
    /\ [][toggles' = toggles + 1 => isOpen' = ~isOpen]_vars

C19_Witness ==
    /\ toggles = 3
    /\ isOpen
    /\ Len(NavbarRender.panel) = 4

\* C20: a click on a section link of the mobile menu closes the menu, and
\* such a link can be clicked only while the menu is open.
C20_LinkClosesMenu ==
    /\ [](\A i \in 1..Len(navLinks) :
            ENABLED MobileLinkClick(navLinks[i]) => isOpen)
    /\ [][(\E i \in 1..Len(navLinks) : MobileLinkClick(navLinks[i]))
            => (isOpen /\ ~isOpen' /\ NavbarRender'.panel = <<>>)]_vars

\* the menu was opened, closed and opened again by the button, then closed
\* by the Installation link
C20_Witness ==
    /\ ~isOpen
    /\ toggles = 0
    /\ location = "#installation"
    /\ NavbarRender.panel = <<>>

\* C21: a click on the logo, on a link of the desktop row (a section link or
\* the GitHub link) or on the GitHub link of the mobile menu leaves isOpen as
\* it was; isOpen changes only by a click on the menu button or on one of the
\* three section links of the mobile menu.
C21_NavbarFrame ==
    /\ [][LogoClick => isOpen' = isOpen]_vars
    /\ [][(\E i \in 1..Len(navLinks) : DesktopLinkClick(navLinks[i]))
            => isOpen' = isOpen]_vars
    /\ [][DesktopGitHubClick => isOpen' = isOpen]_vars
    /\ [][MobileGitHubClick => isOpen' = isOpen]_vars
    /\ [][isOpen' # isOpen =>
            \/ MenuButtonClick
            \/ \E i \in 1..Len(navLinks) : MobileLinkClick(navLinks[i])]_vars

\* the menu is open after a link was followed, the logo was clicked and the
\* repository was opened from the open menu or the desktop row
C21_Witness ==
    /\ isOpen
    /\ location = "#features"
    /\ scroll = 0
    /\ opened = 2

----------------------------------------------------------------------------
(* Terminal: the colours *)

\* the class of the row of step i: its colour, or the default grey
ClassOf(i) ==
    (IF steps[i].color = "" THEN "text-gray-300" ELSE steps[i].color)
        \o " mb-1"

\* C22: the row rendered at index i shows the text of steps[i] with the colour
\* of steps[i], the default grey when that step has none; a line is never
\* shown with the colour of a step other than its own.
C22_LineColours ==
    /\ Len(TerminalRender) = Len(lines)
    /\ \A i \in 1..Len(TerminalRender) :
        /\ i <= Len(steps)
        /\ lines[i] = steps[i].text
        /\ TerminalRender[i].text = steps[i].text
        /\ TerminalRender[i].className = ClassOf(i)
        /\ TerminalRender[i].className = ClassOf(StepOf(TerminalRender[i].text))

\* all ten rows are shown in the second run: the first in the default grey,
\* the last in white
C22_Witness ==
    /\ Runs = 2
    /\ Len(TerminalRender) = Len(steps)
    /\ TerminalRender[1].className = "text-gray-300 mb-1"
    /\ TerminalRender[3].className = "text-blue-400 mb-1"
    /\ TerminalRender[Len(steps)].className = "text-white mb-1"

----------------------------------------------------------------------------
(* The links into the page *)

\* the hrefs of the links to a fragment of the page
FragmentLinks ==
    {navLinks[i].href : i \in 1..Len(navLinks)} \cup {HeroGetStarted.href}

\* C23: the fragment of every section link of Navbar and of the 'Get Started'
\* link of Hero is the id of exactly one section that App renders; following
\* such a link takes the window to that section.
C23_TargetsExist ==
    /\ [](\A href \in FragmentLinks : Cardinality(Targets(href)) = 1)
    /\ [][location' # location =>
            /\ location' \in FragmentLinks
            /\ scroll' \in Targets(location')]_vars

\* the 'Get Started' link or an Installation link was followed
C23_Witness ==
    /\ location = "#installation"
    /\ scroll = 5
    /\ AppSections[scroll].component = "Installation"

====
